---------------------------- MODULE Spec2Model ----------------------------
(***************************************************************************)
(* A model of the coresubset solvers of coreax/solvers/coresubset.py:      *)
(* KernelHerding, SteinThinning, RandomSample, RPCholesky and              *)
(* GreedyKernelInducingPoints, each as a state machine whose loop body is  *)
(* one action.                                                             *)
(*                                                                         *)
(* Arrays are functions over 0..len-1, so that positions and dataset       *)
(* indices are the 0-based numbers of the source.  Floating point values   *)
(* are extended rationals: a finite value is an exact fraction n/d in      *)
(* lowest terms, and +inf, -inf and NaN follow the IEEE rules the source   *)
(* relies on.  Rounding error is outside the model.                        *)
(***************************************************************************)
EXTENDS Integers, FiniteSets, TLC

(***************************************************************************)
(* Bounds of the model.                                                    *)
(***************************************************************************)
MaxN == 2
MaxSize == 2
MaxInputLen == 2

\* The random keys a solver may hold, and the batch sizes that may be given.
Keys == {0, 1}
BatchSizes == {1}

\* The coordinates and weights a dataset point may have.
Coords == {0, 1}
Weights == {0, 1}
\* The responses of a supervised dataset.
Responses == {0, 1}

(***************************************************************************)
(* Extended rational arithmetic (the float values of the source).          *)
(***************************************************************************)
Abs(a) == IF a < 0 THEN -a ELSE a

RECURSIVE GCD(_, _)
GCD(a, b) == IF b = 0 THEN a ELSE GCD(b, a % b)

Fin(num, den) ==
    LET s == IF den < 0 THEN -1 ELSE 1
        g == GCD(Abs(num), Abs(den))
    IN  [t |-> "fin", n |-> (s * num) \div g, d |-> (s * den) \div g]

Int2X(k) == [t |-> "fin", n |-> k, d |-> 1]
Zero == Int2X(0)
PInf == [t |-> "inf", n |-> 0, d |-> 1]
NInf == [t |-> "ninf", n |-> 0, d |-> 1]
NaN  == [t |-> "nan", n |-> 0, d |-> 1]

IsNaN(a) == a.t = "nan"
IsFin(a) == a.t = "fin"
Sign(a) == CASE a.t = "inf" -> 1
             [] a.t = "ninf" -> -1
             [] a.t = "fin" -> (IF a.n > 0 THEN 1 ELSE IF a.n < 0 THEN -1 ELSE 0)
             [] OTHER -> 0

XNeg(a) == CASE a.t = "fin" -> [a EXCEPT !.n = -a.n]
             [] a.t = "inf" -> NInf
             [] a.t = "ninf" -> PInf
             [] OTHER -> NaN

XAdd(a, b) ==
    CASE IsNaN(a) \/ IsNaN(b) -> NaN
      [] IsFin(a) /\ IsFin(b) -> Fin(a.n * b.d + b.n * a.d, a.d * b.d)
      [] IsFin(a) -> b
      [] IsFin(b) -> a
      [] a.t = b.t -> a
      [] OTHER -> NaN

XSub(a, b) == XAdd(a, XNeg(b))

XMul(a, b) ==
    CASE IsNaN(a) \/ IsNaN(b) -> NaN
      [] IsFin(a) /\ IsFin(b) -> Fin(a.n * b.n, a.d * b.d)
      [] Sign(a) * Sign(b) > 0 -> PInf
      [] Sign(a) * Sign(b) < 0 -> NInf
      [] OTHER -> NaN

XDiv(a, b) ==
    CASE IsNaN(a) \/ IsNaN(b) -> NaN
      [] IsFin(a) /\ IsFin(b) /\ b.n # 0 -> Fin(a.n * b.d, a.d * b.n)
      [] IsFin(a) /\ IsFin(b) ->
            (IF a.n > 0 THEN PInf ELSE IF a.n < 0 THEN NInf ELSE NaN)
      [] IsFin(a) -> Zero
      [] IsFin(b) -> (IF Sign(b) < 0 THEN XNeg(a) ELSE a)
      [] OTHER -> NaN

\* a < b as IEEE compares: false whenever either side is NaN.
XLess(a, b) ==
    CASE IsNaN(a) \/ IsNaN(b) -> FALSE
      [] IsFin(a) /\ IsFin(b) -> a.n * b.d < b.n * a.d
      [] a.t = "ninf" -> b.t # "ninf"
      [] b.t = "inf" -> a.t # "inf"
      [] OTHER -> FALSE

XMax(a, b) == IF IsNaN(a) \/ IsNaN(b) THEN NaN ELSE IF XLess(a, b) THEN b ELSE a

(***************************************************************************)
(* Arrays.                                                                 *)
(***************************************************************************)
ALen(a) == Cardinality(DOMAIN a)
\* The array a, with its entries computed once.
Eager(a) == a @@ a
Empty == [k \in {} |-> 0]
Full(len, v) == [k \in 0 .. len - 1 |-> v]
Slice(a, len) == [k \in 0 .. len - 1 |-> a[k]]
Concat(a, b) ==
    [k \in 0 .. ALen(a) + ALen(b) - 1 |-> IF k < ALen(a) THEN a[k] ELSE b[k - ALen(a)]]
\* a[idx] as numpy reads it: a negative index counts from the end.
Wrap(idx, len) == IF idx < 0 THEN idx + len ELSE idx
\* a.at[idx].set(v)
AtSet(a, idx, v) == [a EXCEPT ![Wrap(idx, ALen(a))] = v]

RECURSIVE SumTo(_, _)
SumTo(f, k) == IF k < 0 THEN Zero ELSE XAdd(SumTo(f, k - 1), f[k])
XSum(f) == SumTo(f, ALen(f) - 1)

RECURSIVE ISumTo(_, _)
ISumTo(f, k) == IF k < 0 THEN 0 ELSE ISumTo(f, k - 1) + f[k]
ISum(f) == ISumTo(f, ALen(f) - 1)

Distinct(a) == \A p, q \in DOMAIN a : p # q => a[p] # a[q]


(***************************************************************************)
(* The collaborators of the solvers: the kernel, the data containers and   *)
(* the density estimate.  A dataset is [x, w, y]: coordinates on a line,   *)
(* weights and (for supervised data) responses.                            *)
(***************************************************************************)
Kernels == {"linear", "tri"}

\* Kernel.compute_elementwise(a, b) of the two kernels of the model.
KernelValue(kernel, a, b) ==
    IF kernel = "linear" THEN a * b ELSE Cardinality(Coords) - Abs(a - b)

\* jnp.ravel(kernel.compute(data, data[idx])): the kernel row of one point.
KernelRow(kernel, x, idx) ==
    [j \in DOMAIN x |-> Int2X(KernelValue(kernel, x[j], x[Wrap(idx, ALen(x))]))]

\* jax.vmap(kernel.compute_elementwise)(x, x)
KernelDiagonal(kernel, x) == [j \in DOMAIN x |-> Int2X(KernelValue(kernel, x[j], x[j]))]

\* convert_stein_kernel(x, kernel, score_matching): the Stein kernel induced
\* by a base kernel and the score function matched to the data.
ConvertSteinKernel(x, kernel) == [base_kernel |-> kernel, score_function |-> "matched"]

\* The matched score function, the gradient of the log-density, at a point.
ScoreFunction(a) == -a

\* SteinKernel.compute_elementwise(a, b): the base kernel weighted by the
\* scores of the two points, plus the divergence term.
SteinKernelValue(stein_kernel, a, b) ==
    1 + KernelValue(stein_kernel.base_kernel, a, b) * ScoreFunction(a) * ScoreFunction(b)

\* Kernel.gramian_row_mean(data): the weighted mean kernel value of every
\* point against the whole dataset (weights normalised, zeros preserved).
GramianRowMean(kernel, data) ==
    LET W == ISum(data.w)
    IN  [j \in DOMAIN data.x |->
            IF W = 0 THEN Zero
            ELSE Fin(ISum([l \in DOMAIN data.x |->
                        data.w[l] * KernelValue(kernel, data.x[j], data.x[l])]), W)]

\* Kernel.compute_mean(data, coreset, axis=1): the mean kernel value of every
\* dataset point against the coreset points, weighted by the coreset weights.
ComputeMean(kernel, x, indices, weights) ==
    LET W == ISum(weights)
    IN  [j \in DOMAIN x |->
            IF W = 0 THEN Zero
            ELSE Fin(ISum([p \in DOMAIN indices |->
                        weights[p] * KernelValue(kernel, x[j],
                                                 x[Wrap(indices[p], ALen(x))])]), W)]

\* gaussian_kde(x, weights).logpdf(x): higher where the weighted data is denser.
KdeLogPdf(data) ==
    LET W == ISum(data.w)
    IN  [j \in DOMAIN data.x |->
            IF W = 0 THEN NaN
            ELSE Fin(-ISum([l \in DOMAIN data.x |->
                        data.w[l] * Abs(data.x[l] - data.x[j])]), W)]

\* _laplace_positive: the clipped, summed Hessian diagonal of the score function.
LaplacePositive(data) ==
    [j \in DOMAIN data.x |->
        Int2X(Cardinality({l \in DOMAIN data.x : l # j /\ data.x[l] = data.x[j]}))]

\* Coresubset(nodes, dataset): constructing one with more indices than the
\* dataset has points fails with a ValueError.
CoresubsetFails(indices, data) == ALen(indices) > ALen(data.x)

\* jnp.argmax / jnp.argmin of an array without NaN: the first extremum.
ArgMax(a) ==
    CHOOSE k \in DOMAIN a :
        /\ \A l \in DOMAIN a : ~XLess(a[k], a[l])
        /\ \A l \in DOMAIN a : l < k => XLess(a[l], a[k])

ArgMin(a) ==
    CHOOSE k \in DOMAIN a :
        /\ \A l \in DOMAIN a : ~XLess(a[l], a[k])
        /\ \A l \in DOMAIN a : l < k => XLess(a[k], a[l])

\* jnp.nanargmax: NaN entries count as -inf, the first maximum wins, and an
\* all-NaN array gives -1.
NanArgMax(a) ==
    IF \A k \in DOMAIN a : IsNaN(a[k]) THEN -1
    ELSE ArgMax([k \in DOMAIN a |-> IF IsNaN(a[k]) THEN NInf ELSE a[k]])

\* jnp.nanargmin: NaN entries count as +inf, the first minimum wins, and an
\* all-NaN array gives -1.
NanArgMin(a) ==
    IF \A k \in DOMAIN a : IsNaN(a[k]) THEN -1
    ELSE ArgMin([k \in DOMAIN a |-> IF IsNaN(a[k]) THEN PInf ELSE a[k]])

(***************************************************************************)
(* The state.                                                              *)
(*   solver       the solver object: its class (name) and fields           *)
(*   dataset      the dataset being reduced                                *)
(*   pc           where the current call is: "idle", inside one of the     *)
(*                loops ("greedy", "rpc", "gkip"), "done" or "raised"      *)
(*   method       the method of the current call, "reduce" or "refine"     *)
(*   rel          how the current call relates to the one before           *)
(*   calls        the number of calls made so far                          *)
(*   coresubset   the coresubset argument of refine: [indices, weights]    *)
(*   solver_state the solver_state argument: [given, value]                *)
(*   env          the locals the loop body closes over                     *)
(*   i, val       the loop counter and carry of jax.lax.fori_loop          *)
(*   outcome      what the call returned or raised                         *)
(*   previous     the outcome of the call before                           *)
(*   warnings     the warnings emitted by the current call                 *)
(***************************************************************************)
VARIABLES solver, dataset, pc, method, rel, calls, coresubset, solver_state,
          env, i, val, outcome, previous, warnings

vars == <<solver, dataset, pc, method, rel, calls, coresubset, solver_state,
          env, i, val, outcome, previous, warnings>>

MSG == "'coreset_size' must be less than 'len(dataset)' by definition of a coreset"

None == [given |-> FALSE, value |-> Empty]
Some(v) == [given |-> TRUE, value |-> v]
NoEnv == [none |-> TRUE]
NoOutcome == [status |-> "none", error |-> "", indices |-> Empty, state |-> None]
Returned(indices, state) ==
    [status |-> "returned", error |-> "", indices |-> indices, state |-> state]
Raised(error) ==
    [status |-> "raised", error |-> error, indices |-> Empty, state |-> None]

n == ALen(dataset.x)

\* _initial_coresubset letting the constructor's own ValueError through.
InitialCoresubsetBareRaise(fill_value, coreset_size, data) ==
    LET initial_coresubset_indices == Full(coreset_size, fill_value)
    IN  IF CoresubsetFails(initial_coresubset_indices, data)
        THEN [raised |-> TRUE, error |-> "ValueError",
              indices |-> Empty, weights |-> Empty]
        ELSE [raised |-> FALSE, error |-> "",
              indices |-> initial_coresubset_indices,
              weights |-> Full(coreset_size, 0)]

\* _initial_coresubset refusing, as its message words it, every
\* coreset_size that is not less than len(dataset).
InitialCoresubsetStrictlyLess(fill_value, coreset_size, data) ==
    LET initial_coresubset_indices == Full(coreset_size, fill_value)
    IN  IF coreset_size >= ALen(data.x)
        THEN [raised |-> TRUE, error |-> MSG,
              indices |-> Empty, weights |-> Empty]
        ELSE [raised |-> FALSE, error |-> "",
              indices |-> initial_coresubset_indices,
              weights |-> Full(coreset_size, 0)]

\* _initial_coresubset: `fill_value` valued, zero-weighted indices; the
\* Coresubset constructor's ValueError becomes the sizing error MSG.
InitialCoresubset(fill_value, coreset_size, data) ==
    LET initial_coresubset_indices == Full(coreset_size, fill_value)
    IN  IF CoresubsetFails(initial_coresubset_indices, data)
        THEN [raised |-> TRUE, error |-> MSG,
              indices |-> Empty, weights |-> Empty]
        ELSE [raised |-> FALSE, error |-> "",
              indices |-> initial_coresubset_indices,
              weights |-> Full(coreset_size, 0)]

(***************************************************************************)
(* _greedy_kernel_selection, shared by KernelHerding and SteinThinning.    *)
(***************************************************************************)
\* Padding that puts the zeros in front of the entries.
ZeroPadLeading(a, pad_width) == Concat(Full(pad_width, 0), a)

\* tree_zero_pad_leading_axis(coresubset.nodes, padding)
ZeroPad(a, pad_width) == Concat(a, Full(pad_width, 0))

\* The herding criterion resolving exact ties to the last maximal index.
HerdingSelectionLastMaximum(e, it, penalty) ==
    LET objective ==
            [j \in DOMAIN penalty |->
                LET o == XSub(e.gramian_row_mean[j],
                              XDiv(penalty[j], Int2X(it + 1)))
                IN  IF IsNaN(o) THEN NInf ELSE o]
    IN  IF \A j \in DOMAIN penalty : IsNaN(penalty[j]) THEN -1
        ELSE CHOOSE k \in DOMAIN objective :
                /\ \A l \in DOMAIN objective : ~XLess(objective[k], objective[l])
                /\ \A l \in DOMAIN objective :
                       l > k => XLess(objective[l], objective[k])

\* KernelHerding.refine.selection_function
HerdingSelection(e, it, penalty) ==
    NanArgMax([j \in DOMAIN penalty |->
        XSub(e.gramian_row_mean[j], XDiv(penalty[j], Int2X(it + 1)))])

\* SteinThinning.refine.selection_function
SteinSelection(e, it, penalty) ==
    NanArgMin([j \in DOMAIN penalty |->
        LET ksd == XAdd(e.stein_kernel_diagonal[j], XMul(Int2X(2), penalty[j]))
        IN  XSub(XAdd(ksd, e.laplace_correction[j]),
                 XMul(Int2X(it), e.regularised_log_pdf[j]))])

SelectionFunction(e, it, penalty) ==
    IF e.selection = "herding" THEN HerdingSelection(e, it, penalty)
    ELSE SteinSelection(e, it, penalty)

\* The penalty vector and index array _greedy_kernel_selection starts from.
GreedyInitState(c, output_size, kernel, x) ==
    LET padding == IF output_size - ALen(c.indices) > 0
                   THEN output_size - ALen(c.indices) ELSE 0
        padded_indices == ZeroPad(c.indices, padding)
        padded_weights == ZeroPad(c.weights, padding)
    IN  [coreset_indices |-> padded_indices,
         kernel_similarity_penalty |->
             ComputeMean(kernel, x, padded_indices, padded_weights)]

\* The loop body leaving the chosen point's penalty as updated, whatever
\* `unique` says.
GreedyBodyNoSentinel(e, it, v) ==
    LET valid_kernel_similarity_penalty ==
            [j \in DOMAIN e.weights |->
                IF e.weights[j] > 0 THEN v.kernel_similarity_penalty[j] ELSE NaN]
        updated_coreset_index ==
            SelectionFunction(e, it, valid_kernel_similarity_penalty)
        penalty_update == KernelRow(e.kernel, e.data, updated_coreset_index)
    IN  [coreset_indices |-> AtSet(v.coreset_indices, it, updated_coreset_index),
         kernel_similarity_penalty |->
             [j \in DOMAIN e.data |->
                 XAdd(v.kernel_similarity_penalty[j], penalty_update[j])]]

\* The loop body appending only: a position that already holds a dataset
\* index other than the placeholder keeps it.
GreedyBodyKeepFilled(e, it, v) ==
    LET valid_kernel_similarity_penalty ==
            [j \in DOMAIN e.weights |->
                IF e.weights[j] > 0 THEN v.kernel_similarity_penalty[j] ELSE NaN]
        updated_coreset_index ==
            IF v.coreset_indices[it] # 0 THEN v.coreset_indices[it]
            ELSE SelectionFunction(e, it, valid_kernel_similarity_penalty)
        penalty_update == KernelRow(e.kernel, e.data, updated_coreset_index)
        updated_penalty ==
            [j \in DOMAIN e.data |->
                XAdd(v.kernel_similarity_penalty[j], penalty_update[j])]
    IN  [coreset_indices |-> AtSet(v.coreset_indices, it, updated_coreset_index),
         kernel_similarity_penalty |->
             IF e.unique THEN AtSet(updated_penalty, updated_coreset_index, PInf)
             ELSE updated_penalty]

\* _greedy_kernel_selection._greedy_body
GreedyBody(e, it, v) ==
    LET valid_kernel_similarity_penalty ==
            [j \in DOMAIN e.weights |->
                IF e.weights[j] > 0 THEN v.kernel_similarity_penalty[j] ELSE NaN]
        updated_coreset_index ==
            SelectionFunction(e, it, valid_kernel_similarity_penalty)
        penalty_update == KernelRow(e.kernel, e.data, updated_coreset_index)
        updated_penalty ==
            [j \in DOMAIN e.data |->
                XAdd(v.kernel_similarity_penalty[j], penalty_update[j])]
    IN  [coreset_indices |-> AtSet(v.coreset_indices, it, updated_coreset_index),
         kernel_similarity_penalty |->
             IF e.unique THEN AtSet(updated_penalty, updated_coreset_index, PInf)
             ELSE updated_penalty]

(***************************************************************************)
(* Calls.  A call is entered from "idle", or from "done" when it follows   *)
(* an earlier call; the model follows a solver through two calls.          *)
(***************************************************************************)
Enter(m, c, st, r) ==
    /\ calls < 2
    /\ calls' = calls + 1
    /\ method' = m
    /\ rel' = r
    /\ coresubset' = c
    /\ solver_state' = st
    /\ previous' = outcome
    /\ UNCHANGED <<solver, dataset>>

RaiseAfter(error, emitted) ==
    /\ pc' = "raised"
    /\ outcome' = Raised(error)
    /\ i' = 0
    /\ env' = NoEnv
    /\ val' = NoEnv
    /\ warnings' = emitted

Raise(error) == RaiseAfter(error, {})

\* The body of KernelHerding.refine up to the loop.
HerdingRefine(c, st) ==
    /\ env' = [selection |-> "herding",
               gramian_row_mean |-> IF st.given THEN st.value
                                    ELSE GramianRowMean(solver.kernel, dataset),
               data |-> dataset.x, weights |-> dataset.w,
               kernel |-> solver.kernel, unique |-> solver.unique,
               output_size |-> solver.coreset_size]
    /\ val' = GreedyInitState(c, solver.coreset_size, solver.kernel, dataset.x)
    /\ i' = 0
    /\ pc' = "greedy"
    /\ outcome' = NoOutcome
    /\ warnings' = {}

\* The body of SteinThinning.refine up to the loop.
SteinRefine(c, st) ==
    IF solver.regularise /\ ALen(c.indices) = 0
    THEN Raise("ZeroDivisionError")
    ELSE
    /\ env' = [selection |-> "stein",
               stein_kernel |-> ConvertSteinKernel(dataset.x, solver.kernel),
               stein_kernel_diagonal |-> KernelDiagonal(solver.kernel, dataset.x),
               laplace_correction |->
                   IF solver.regularise THEN LaplacePositive(dataset)
                   ELSE Full(n, Zero),
               regularised_log_pdf |->
                   IF solver.regularise
                   THEN LET regulariser_lambda == Fin(1, ALen(c.indices))
                            logpdf == KdeLogPdf(dataset)
                        IN  [j \in DOMAIN dataset.x |->
                                XMul(regulariser_lambda, logpdf[j])]
                   ELSE Full(n, Zero),
               state |-> st,
               data |-> dataset.x, weights |-> dataset.w,
               kernel |-> solver.kernel, unique |-> solver.unique,
               output_size |-> solver.coreset_size]
    /\ val' = GreedyInitState(c, solver.coreset_size, solver.kernel, dataset.x)
    /\ i' = 0
    /\ pc' = "greedy"
    /\ outcome' = NoOutcome
    /\ warnings' = {}

RefineBody(c, st) ==
    CASE solver.name = "herding" -> HerdingRefine(c, st)
      [] solver.name = "stein" -> SteinRefine(c, st)

\* KernelHerding.reduce, SteinThinning.reduce
GreedyReduce ==
    /\ pc = "idle"
    /\ solver.name \in {"herding", "stein"}
    /\ LET initial_coresubset == InitialCoresubset(0, solver.coreset_size, dataset)
           c == [indices |-> initial_coresubset.indices,
                 weights |-> initial_coresubset.weights]
       IN  /\ Enter("reduce", c, None, "first")
           /\ IF initial_coresubset.raised
              THEN Raise(initial_coresubset.error)
              ELSE RefineBody(c, None)

\* The coresubsets a caller may hand to refine: up to MaxInputLen indices of
\* the dataset and no more than the dataset has points, each with weight one.
InputCoresubsets ==
    UNION {{[indices |-> f, weights |-> Full(len, 1)] :
                f \in [0 .. len - 1 -> 0 .. n - 1]} :
                    len \in {l \in 0 .. MaxInputLen : l <= n}}

\* KernelHerding.refine, SteinThinning.refine
GreedyRefine ==
    /\ pc = "idle"
    /\ solver.name \in {"herding", "stein"}
    /\ \E c \in InputCoresubsets :
           /\ Enter("refine", c, None, "first")
           /\ RefineBody(c, None)

\* One iteration of the fori_loop of _greedy_kernel_selection.
GreedyStep ==
    /\ pc = "greedy"
    /\ i < env.output_size
    /\ val' = GreedyBody(env, i, val)
    /\ i' = i + 1
    /\ UNCHANGED <<solver, dataset, pc, method, rel, calls, coresubset,
                   solver_state, env, outcome, previous, warnings>>

\* The loop's index array returned whole, without the cut to output_size.
GreedyOutputWhole(v, output_size) == v.coreset_indices

\* output_state[0][:output_size]
GreedyOutput(v, output_size) == Slice(v.coreset_indices, output_size)

\* The end of the loop: the first output_size indices and the solver state.
GreedyReturn ==
    /\ pc = "greedy"
    /\ i >= env.output_size
    /\ pc' = "done"
    /\ outcome' = Returned(GreedyOutput(val, env.output_size),
                           IF env.selection = "herding"
                           THEN Some(env.gramian_row_mean) ELSE env.state)
    /\ UNCHANGED <<solver, dataset, method, rel, calls, coresubset,
                   solver_state, env, i, val, previous, warnings>>

\* The same call again, with the same arguments.
GreedyRepeat ==
    /\ pc = "done"
    /\ solver.name \in {"herding", "stein"}
    /\ Enter(method, coresubset, solver_state, "repeat")
    /\ RefineBody(coresubset, solver_state)

\* refine called on the coresubset and solver state the last call returned.
GreedyRefineResult ==
    /\ pc = "done"
    /\ solver.name \in {"herding", "stein"}
    /\ LET c == [indices |-> outcome.indices,
                 weights |-> Full(ALen(outcome.indices), 1)]
       IN  /\ Enter("refine", c, outcome.state, "refine_result")
           /\ RefineBody(c, outcome.state)

\* The same call again, handed the solver state the last call returned.
GreedyCached ==
    /\ pc = "done"
    /\ solver.name \in {"herding", "stein"}
    /\ rel = "first"
    /\ Enter(method, coresubset, outcome.state, "cached")
    /\ RefineBody(coresubset, outcome.state)

(***************************************************************************)
(* RPCholesky.reduce.  A column of the approximation matrix is kept as     *)
(* [g, d], standing for the vector g / sqrt(d): every use of the matrix    *)
(* multiplies two entries of one column, which is rational.                *)
(***************************************************************************)
ZeroColumn(len) == [g |-> Full(len, Zero), d |-> Int2X(1)]

\* One entry g[j] / sqrt(d) of a column whose d is not a positive number.
Entry(col, j) ==
    CASE IsNaN(col.d) \/ Sign(col.d) < 0 -> NaN
      [] col.d.t = "inf" -> XDiv(col.g[j], PInf)
      [] OTHER -> XDiv(col.g[j], Zero)

\* approximation_matrix[j, k] * approximation_matrix[p, k]
ColProd(col, j, p) ==
    IF IsFin(col.d) /\ col.d.n > 0
    THEN XDiv(XMul(col.g[j], col.g[p]), col.d)
    ELSE XMul(Entry(col, j), Entry(col, p))

\* A derived key that also depends on how many calls were made before.
FoldInPerCall(random_key, it) == random_key * (it + 1) + calls

\* jr.fold_in(random_key, i)
FoldIn(random_key, it) == random_key * (it + 1)

\* jr.choice(key, num_data_points, (), p=p, replace=False): the smallest of
\* -gumbel - log(p).  An entry with p > 0 comes before every entry with
\* p = 0, and among equal keys the first index wins; which of the entries
\* with p > 0 is drawn depends on the key alone.
Choice(key, p) ==
    LET len == ALen(p)
        positive == {j \in DOMAIN p : XLess(Zero, p[j])}
        zero == {j \in DOMAIN p : p[j] = Zero}
        rank(j) == (j - key) % len
    IN  IF positive # {}
        THEN CHOOSE j \in positive : \A l \in positive : rank(j) <= rank(l)
        ELSE IF zero # {}
        THEN CHOOSE j \in zero : \A l \in zero : j <= l
        ELSE 0

\* jnp.clip(a, min=0)
ClipMin0(a) == XMax(a, Zero)

\* The loop body subtracting the squared kernel column of the pivot from the
\* residual diagonal, without the clip at zero.
RPCholeskyBodyNoClip(e, it, v) ==
    LET key == FoldIn(e.random_key, it)
        pivot_point == Choice(key, v.residual_diagonal)
        kernel_column == KernelRow(e.kernel, e.data, pivot_point)
        g == [j \in DOMAIN e.data |->
                XSub(kernel_column[j],
                     XSum([k \in DOMAIN v.approximation_matrix |->
                            ColProd(v.approximation_matrix[k], j, pivot_point)]))]
        updated_residual_diagonal ==
            [j \in DOMAIN e.data |->
                XSub(v.residual_diagonal[j],
                     XMul(kernel_column[j], kernel_column[j]))]
    IN  [residual_diagonal |->
             IF e.unique THEN AtSet(updated_residual_diagonal, pivot_point, Zero)
             ELSE updated_residual_diagonal,
         approximation_matrix |->
             [v.approximation_matrix EXCEPT ![it] = [g |-> g, d |-> g[pivot_point]]],
         coreset_indices |-> AtSet(v.coreset_indices, it, pivot_point)]

\* RPCholesky.reduce._greedy_body
RPCholeskyBody(e, it, v) ==
    LET key == FoldIn(e.random_key, it)
        pivot_point == Choice(key, v.residual_diagonal)
        kernel_column == KernelRow(e.kernel, e.data, pivot_point)
        g == [j \in DOMAIN e.data |->
                XSub(kernel_column[j],
                     XSum([k \in DOMAIN v.approximation_matrix |->
                            ColProd(v.approximation_matrix[k], j, pivot_point)]))]
        updated_approximation_matrix ==
            [v.approximation_matrix EXCEPT ![it] = [g |-> g, d |-> g[pivot_point]]]
        updated_residual_diagonal ==
            [j \in DOMAIN e.data |->
                ClipMin0(XSub(v.residual_diagonal[j],
                              ColProd(v.approximation_matrix[it], j, j)))]
    IN  [residual_diagonal |->
             IF e.unique THEN AtSet(updated_residual_diagonal, pivot_point, Zero)
             ELSE updated_residual_diagonal,
         approximation_matrix |-> updated_approximation_matrix,
         coreset_indices |-> AtSet(v.coreset_indices, it, pivot_point)]

\* The body of RPCholesky.reduce up to the loop.
RPCholeskyStart(st) ==
    LET gramian_diagonal == IF st.given THEN st.value
                            ELSE KernelDiagonal(solver.kernel, dataset.x)
        initial_coresubset == InitialCoresubset(0, solver.coreset_size, dataset)
    IN  IF initial_coresubset.raised
        THEN Raise(initial_coresubset.error)
        ELSE /\ env' = [gramian_diagonal |-> gramian_diagonal,
                        random_key |-> solver.random_key,
                        data |-> dataset.x, kernel |-> solver.kernel,
                        unique |-> solver.unique,
                        coreset_size |-> solver.coreset_size]
             /\ val' = [residual_diagonal |-> gramian_diagonal,
                        approximation_matrix |->
                            Full(solver.coreset_size, ZeroColumn(n)),
                        coreset_indices |-> initial_coresubset.indices]
             /\ i' = 0
             /\ pc' = "rpc"
             /\ outcome' = NoOutcome
             /\ warnings' = {}

NoCoresubset == [indices |-> Empty, weights |-> Empty]

\* RPCholesky.reduce
RPCholeskyReduce ==
    /\ pc = "idle"
    /\ solver.name = "rpcholesky"
    /\ Enter("reduce", NoCoresubset, None, "first")
    /\ RPCholeskyStart(None)

\* One iteration of the fori_loop of RPCholesky.reduce.
RPCholeskyStep ==
    /\ pc = "rpc"
    /\ i < env.coreset_size
    /\ val' = RPCholeskyBody(env, i, val)
    /\ i' = i + 1
    /\ UNCHANGED <<solver, dataset, pc, method, rel, calls, coresubset,
                   solver_state, env, outcome, previous, warnings>>

\* The end of the loop handing back the residual diagonal the loop ended with.
RPCholeskyReturnResidual ==
    /\ pc = "rpc"
    /\ i >= env.coreset_size
    /\ pc' = "done"
    /\ outcome' = Returned(val.coreset_indices, Some(val.residual_diagonal))
    /\ UNCHANGED <<solver, dataset, method, rel, calls, coresubset,
                   solver_state, env, i, val, previous, warnings>>

\* The end of the loop: Coresubset(updated_coreset_indices, dataset) and the
\* Gramian diagonal as the solver state.
RPCholeskyReturn ==
    /\ pc = "rpc"
    /\ i >= env.coreset_size
    /\ pc' = "done"
    /\ outcome' = Returned(val.coreset_indices, Some(env.gramian_diagonal))
    /\ UNCHANGED <<solver, dataset, method, rel, calls, coresubset,
                   solver_state, env, i, val, previous, warnings>>

\* reduce again, with the same arguments and the same random key.
RPCholeskyRepeat ==
    /\ pc = "done"
    /\ solver.name = "rpcholesky"
    /\ Enter("reduce", NoCoresubset, solver_state, "repeat")
    /\ RPCholeskyStart(solver_state)

\* reduce again, handed the solver state the last call returned.
RPCholeskyCached ==
    /\ pc = "done"
    /\ solver.name = "rpcholesky"
    /\ rel = "first"
    /\ Enter("reduce", NoCoresubset, outcome.state, "cached")
    /\ RPCholeskyStart(outcome.state)

(***************************************************************************)
(* GreedyKernelInducingPoints.  Matrices are arrays of rows.  The feature  *)
(* Gramian holds integers; index -1 reads the padding row and column.      *)
(***************************************************************************)
\* jnp.pad(feature_kernel.compute(x, x), [(0, 1)]): one more row and column
\* of zeros.
PaddedFeatureGramian(kernel, x) ==
    LET len == ALen(x)
        entry(a, b) == IF a = len \/ b = len THEN 0
                       ELSE KernelValue(kernel, x[a], x[b])
    IN  [a \in 0 .. len |-> [b \in 0 .. len |-> entry(a, b)]]

\* The determinant of a square integer matrix: written out for up to three
\* rows, expanded along the first row beyond that.
RECURSIVE Det(_)
Det(B) ==
    LET k == ALen(B)
        minor(c) == Eager([a \in 0 .. k - 2 |->
                        Eager([b \in 0 .. k - 2 |->
                            B[a + 1][IF b < c THEN b ELSE b + 1]])])
        term(c) == (IF c % 2 = 0 THEN 1 ELSE -1) * B[0][c] * Det(minor(c))
    IN  CASE k = 0 -> 1
          [] k = 1 -> B[0][0]
          [] k = 2 -> B[0][0] * B[1][1] - B[0][1] * B[1][0]
          [] k = 3 -> B[0][0] * (B[1][1] * B[2][2] - B[1][2] * B[2][1])
                      - B[0][1] * (B[1][0] * B[2][2] - B[1][2] * B[2][0])
                      + B[0][2] * (B[1][0] * B[2][1] - B[1][1] * B[2][0])
          [] OTHER ->
                ISum(Eager([c \in 0 .. k - 1 |-> IF B[0][c] = 0 THEN 0 ELSE term(c)]))

\* RegularisedLeastSquaresSolver.solve_stack for one system: the solution of
\* (array + regularisation_parameter * identity) x = target.  A position
\* whose row and column are zero gets coefficient zero (the minimal norm
\* solution); the rest is solved exactly.
Solve(array, regularisation_parameter, target, identity) ==
    LET m == ALen(array)
        A == Eager([a \in 0 .. m - 1 |-> Eager([b \in 0 .. m - 1 |->
                array[a][b] + regularisation_parameter * identity[a][b]])])
        S == {a \in 0 .. m - 1 : \E b \in 0 .. m - 1 : A[a][b] # 0 \/ A[b][a] # 0}
        k == Cardinality(S)
        nth == Eager([q \in 0 .. k - 1 |->
                  CHOOSE a \in S : Cardinality({b \in S : b < a}) = q])
        B == Eager([a \in 0 .. k - 1 |->
                Eager([b \in 0 .. k - 1 |-> A[nth[a]][nth[b]]])])
        det == Det(B)
        replaced(q) == Eager([a \in 0 .. k - 1 |-> Eager([b \in 0 .. k - 1 |->
                          IF b = q THEN target[nth[a]] ELSE B[a][b]])])
    IN  Eager([a \in 0 .. m - 1 |->
            IF a \notin S THEN Zero
            ELSE IF det = 0 THEN NaN
            ELSE Fin(Det(replaced(CHOOSE q \in 0 .. k - 1 : nth[q] = a)), det)])

\* _greedy_kernel_inducing_points_loss: the loss of every candidate coreset.
GreedyKernelInducingPointsLoss(candidate_coresets, responses, feature_gramian, regularisation_parameter, identity) ==
    LET len == ALen(feature_gramian)
        m == ALen(identity)
        at(idx) == Wrap(idx, len)
    IN  Eager([r \in DOMAIN candidate_coresets |->
            LET c == candidate_coresets[r]
                coreset_gramian ==
                    Eager([a \in 0 .. m - 1 |-> Eager([b \in 0 .. m - 1 |->
                        feature_gramian[at(c[a])][at(c[b])]])])
                coreset_responses ==
                    Eager([a \in 0 .. m - 1 |-> responses[at(c[a])]])
                coefficients == Solve(coreset_gramian, regularisation_parameter,
                                      coreset_responses, identity)
                predictions ==
                    Eager([j \in 0 .. len - 2 |->
                        XSum(Eager([a \in 0 .. m - 1 |->
                            XMul(Int2X(feature_gramian[at(c[a])][j]),
                                 coefficients[a])]))])
            IN  XSum(Eager([j \in 0 .. len - 2 |->
                    XMul(XSub(predictions[j], Int2X(2 * responses[j])),
                         predictions[j])]))])

\* jr.permutation(key, len): a permutation of 0..len-1 the key determines.
Permutation(key, len) ==
    [k \in 0 .. len - 1 |->
        IF (key \div len) % 2 = 1 THEN (key - k) % len ELSE (key + k) % len]

\* sample_batch_indices: the two checks of its arguments, each raising
\* ValueError.
SampleBatchIndicesRaises(max_index, batch_size) ==
    max_index < batch_size \/ batch_size < 0

\* sample_batch_indices filling every row with the first entry of its
\* permutation.
SampleBatchIndicesFirstEntry(random_key, max_index, batch_size, num_batches) ==
    [r \in 0 .. num_batches - 1 |->
        Full(batch_size, Permutation(FoldIn(random_key, r), max_index)[0])]

\* sample_batch_indices: num_batches rows, each the first batch_size entries
\* of a permutation drawn with its own key (jr.split(random_key, num_batches)).
SampleBatchIndices(random_key, max_index, batch_size, num_batches) ==
    [r \in 0 .. num_batches - 1 |->
        Slice(Permutation(FoldIn(random_key, r), max_index), batch_size)]

\* The loop body leaving column i of the candidate table as it was, and
\* writing only the next batch into column i + 1.
GKIPBodyStaleColumn(e, it, v) ==
    LET m == ALen(v.coreset_indices)
        updated_identity ==
            [v.identity EXCEPT ![it] = [v.identity[it] EXCEPT ![it] = 1]]
        loss == GreedyKernelInducingPointsLoss(
                    v.candidate_coresets, e.padded_responses,
                    e.padded_feature_gramian, e.regularisation_parameter,
                    updated_identity)
        others == AtSet(v.coreset_indices, it, -1)
        masked_loss ==
            IF e.unique
            THEN Eager([r \in DOMAIN loss |->
                    XAdd(loss[r],
                         IF \E q \in DOMAIN others :
                                others[q] = v.candidate_coresets[r][it]
                         THEN PInf ELSE Zero)])
            ELSE loss
        index_to_include_in_coreset == v.candidate_coresets[ArgMin(masked_loss)][it]
    IN  [coreset_indices |->
             AtSet(v.coreset_indices, it, index_to_include_in_coreset),
         identity |-> updated_identity,
         candidate_coresets |->
             [r \in DOMAIN v.candidate_coresets |->
                 [q \in 0 .. m - 1 |->
                     IF q = it + 1 THEN e.batch_indices[it + 1][r]
                     ELSE v.candidate_coresets[r][q]]]]

\* The loop body masking against the whole index array, position i included.
GKIPBodyMaskOwnPosition(e, it, v) ==
    LET m == ALen(v.coreset_indices)
        updated_identity ==
            [v.identity EXCEPT ![it] = [v.identity[it] EXCEPT ![it] = 1]]
        loss == GreedyKernelInducingPointsLoss(
                    v.candidate_coresets, e.padded_responses,
                    e.padded_feature_gramian, e.regularisation_parameter,
                    updated_identity)
        masked_loss ==
            IF e.unique
            THEN Eager([r \in DOMAIN loss |->
                    XAdd(loss[r],
                         IF \E q \in DOMAIN v.coreset_indices :
                                v.coreset_indices[q] = v.candidate_coresets[r][it]
                         THEN PInf ELSE Zero)])
            ELSE loss
        index_to_include_in_coreset == v.candidate_coresets[ArgMin(masked_loss)][it]
    IN  [coreset_indices |->
             AtSet(v.coreset_indices, it, index_to_include_in_coreset),
         identity |-> updated_identity,
         candidate_coresets |->
             [r \in DOMAIN v.candidate_coresets |->
                 [q \in 0 .. m - 1 |->
                     IF q = it + 1 THEN e.batch_indices[it + 1][r]
                     ELSE IF q = it THEN index_to_include_in_coreset
                     ELSE v.candidate_coresets[r][q]]]]

\* The loop body handing the identity helper on as it received it, without
\* the entry of its own iteration.
GKIPBodyIdentityNotKept(e, it, v) ==
    LET m == ALen(v.coreset_indices)
        updated_identity ==
            [v.identity EXCEPT ![it] = [v.identity[it] EXCEPT ![it] = 1]]
        loss == GreedyKernelInducingPointsLoss(
                    v.candidate_coresets, e.padded_responses,
                    e.padded_feature_gramian, e.regularisation_parameter,
                    updated_identity)
        others == AtSet(v.coreset_indices, it, -1)
        already_chosen_indices_mask ==
            [r \in DOMAIN loss |->
                \E q \in DOMAIN others : others[q] = v.candidate_coresets[r][it]]
        masked_loss ==
            IF e.unique
            THEN Eager([r \in DOMAIN loss |->
                    XAdd(loss[r],
                         IF already_chosen_indices_mask[r] THEN PInf ELSE Zero)])
            ELSE loss
        index_to_include_in_coreset == v.candidate_coresets[ArgMin(masked_loss)][it]
        \* a write to column i + 1 = coreset_size falls outside the array and
        \* is dropped
        updated_candidate_coresets ==
            [r \in DOMAIN v.candidate_coresets |->
                [q \in 0 .. m - 1 |->
                    IF q = it + 1 THEN e.batch_indices[it + 1][r]
                    ELSE IF q = it THEN index_to_include_in_coreset
                    ELSE v.candidate_coresets[r][q]]]
    IN  [coreset_indices |->
             AtSet(v.coreset_indices, it, index_to_include_in_coreset),
         identity |-> v.identity,
         candidate_coresets |-> updated_candidate_coresets]

\* The row of the batch table and the column of the candidate table that
\* iteration it of the loop body indexes for the next iteration.
BatchRowRead(it) == it + 1
CandidateColumnWritten(it) == it + 1

\* An index into an axis of len entries as a gather under jit takes it:
\* clamped into the axis.
ClampIndex(idx, len) ==
    IF idx < 0 THEN 0 ELSE IF idx > len - 1 THEN len - 1 ELSE idx

\* The loop body leaving position i of the index array as it was.
GKIPBodyIndexNotWritten(e, it, v) ==
    LET m == ALen(v.coreset_indices)
        updated_identity ==
            [v.identity EXCEPT ![it] = [v.identity[it] EXCEPT ![it] = 1]]
        loss == GreedyKernelInducingPointsLoss(
                    v.candidate_coresets, e.padded_responses,
                    e.padded_feature_gramian, e.regularisation_parameter,
                    updated_identity)
        others == AtSet(v.coreset_indices, it, -1)
        already_chosen_indices_mask ==
            [r \in DOMAIN loss |->
                \E q \in DOMAIN others : others[q] = v.candidate_coresets[r][it]]
        masked_loss ==
            IF e.unique
            THEN Eager([r \in DOMAIN loss |->
                    XAdd(loss[r],
                         IF already_chosen_indices_mask[r] THEN PInf ELSE Zero)])
            ELSE loss
        index_to_include_in_coreset == v.candidate_coresets[ArgMin(masked_loss)][it]
        \* the read of a row past the end of the batch table is clamped to
        \* its last row, and the write to a column past the end of the
        \* candidate table is dropped
        next_batch == e.batch_indices[ClampIndex(BatchRowRead(it), m)]
        updated_candidate_coresets ==
            [r \in DOMAIN v.candidate_coresets |->
                [q \in 0 .. m - 1 |->
                    IF q = CandidateColumnWritten(it) THEN next_batch[r]
                    ELSE IF q = it THEN index_to_include_in_coreset
                    ELSE v.candidate_coresets[r][q]]]
    IN  [coreset_indices |-> v.coreset_indices,
         identity |-> updated_identity,
         candidate_coresets |-> updated_candidate_coresets]

\* GreedyKernelInducingPoints.refine._greedy_body
GKIPBody(e, it, v) ==
    LET m == ALen(v.coreset_indices)
        updated_identity ==
            [v.identity EXCEPT ![it] = [v.identity[it] EXCEPT ![it] = 1]]
        loss == GreedyKernelInducingPointsLoss(
                    v.candidate_coresets, e.padded_responses,
                    e.padded_feature_gramian, e.regularisation_parameter,
                    updated_identity)
        others == AtSet(v.coreset_indices, it, -1)
        already_chosen_indices_mask ==
            [r \in DOMAIN loss |->
                \E q \in DOMAIN others : others[q] = v.candidate_coresets[r][it]]
        masked_loss ==
            IF e.unique
            THEN Eager([r \in DOMAIN loss |->
                    XAdd(loss[r],
                         IF already_chosen_indices_mask[r] THEN PInf ELSE Zero)])
            ELSE loss
        index_to_include_in_coreset == v.candidate_coresets[ArgMin(masked_loss)][it]
        \* the read of a row past the end of the batch table is clamped to
        \* its last row, and the write to a column past the end of the
        \* candidate table is dropped
        next_batch == e.batch_indices[ClampIndex(BatchRowRead(it), m)]
        updated_candidate_coresets ==
            [r \in DOMAIN v.candidate_coresets |->
                [q \in 0 .. m - 1 |->
                    IF q = CandidateColumnWritten(it) THEN next_batch[r]
                    ELSE IF q = it THEN index_to_include_in_coreset
                    ELSE v.candidate_coresets[r][q]]]
    IN  [coreset_indices |->
             AtSet(v.coreset_indices, it, index_to_include_in_coreset),
         identity |-> updated_identity,
         candidate_coresets |-> updated_candidate_coresets]

\* The body of GreedyKernelInducingPoints.refine up to the loop.
GKIPRefine(c, st) ==
    LET m == solver.coreset_size
        len_c == ALen(c.indices)
        coreset_indices ==
            IF m > len_c THEN Concat(c.indices, Full(m - len_c, -1))
            ELSE IF m < len_c THEN Slice(c.indices, m)
            ELSE c.indices
        num_data_pairs == n
        padded_responses == Concat(dataset.y, Full(1, 0))
        padded_feature_gramian ==
            IF st.given THEN st.value
            ELSE PaddedFeatureGramian(solver.kernel, dataset.x)
        batch_size ==
            IF solver.batch_size.given /\ solver.batch_size.value < num_data_pairs
            THEN solver.batch_size.value ELSE num_data_pairs
        batch_indices ==
            SampleBatchIndices(solver.random_key, num_data_pairs, batch_size, m)
        identity_helper == Concat(Full(num_data_pairs, 1), Full(1, 0))
        diagonal == [a \in 0 .. m - 1 |->
                        identity_helper[Wrap(coreset_indices[a], num_data_pairs + 1)]]
        diag(a, b) == IF a = b THEN diagonal[a] ELSE 0
    IN  IF SampleBatchIndicesRaises(num_data_pairs, batch_size)
        THEN RaiseAfter("ValueError",
                        IF m < len_c THEN {"SizeWarning"} ELSE {})
        ELSE IF m = 0
        THEN \* batch_indices[0, :] indexes an axis of size 0
             RaiseAfter("IndexError",
                        IF m < len_c THEN {"SizeWarning"} ELSE {})
        ELSE /\ env' = [padded_responses |-> padded_responses,
                        padded_feature_gramian |-> padded_feature_gramian,
                        batch_indices |-> batch_indices,
                        batch_size |-> batch_size,
                        regularisation_parameter |-> solver.regularisation_parameter,
                        unique |-> solver.unique,
                        coreset_size |-> m,
                        dataset |-> dataset]
             /\ val' = [coreset_indices |-> coreset_indices,
                        identity |->
                            [a \in 0 .. m - 1 |-> [b \in 0 .. m - 1 |-> diag(a, b)]],
                        candidate_coresets |->
                            [r \in 0 .. batch_size - 1 |->
                                AtSet(coreset_indices, 0, batch_indices[0][r])]]
             /\ i' = 0
             /\ pc' = "gkip"
             /\ outcome' = NoOutcome
             /\ warnings' = IF m < len_c THEN {"SizeWarning"} ELSE {}

\* GreedyKernelInducingPoints.reduce
GKIPReduce ==
    /\ pc = "idle"
    /\ solver.name = "gkip"
    /\ LET initial_coresubset == InitialCoresubset(-1, solver.coreset_size, dataset)
           c == [indices |-> initial_coresubset.indices,
                 weights |-> initial_coresubset.weights]
       IN  /\ Enter("reduce", c, None, "first")
           /\ IF initial_coresubset.raised
              THEN Raise(initial_coresubset.error)
              ELSE GKIPRefine(c, None)

\* GreedyKernelInducingPoints.refine
GKIPRefineCall ==
    /\ pc = "idle"
    /\ solver.name = "gkip"
    /\ \E c \in InputCoresubsets :
           /\ Enter("refine", c, None, "first")
           /\ GKIPRefine(c, None)

\* One iteration of the fori_loop of GreedyKernelInducingPoints.refine.
GKIPStep ==
    /\ pc = "gkip"
    /\ i < env.coreset_size
    /\ val' = GKIPBody(env, i, val)
    /\ i' = i + 1
    /\ UNCHANGED <<solver, dataset, pc, method, rel, calls, coresubset,
                   solver_state, env, outcome, previous, warnings>>

\* The end of the loop: Coresubset(updated_coreset_indices, dataset) and the
\* padded feature Gramian as the solver state.
GKIPReturn ==
    /\ pc = "gkip"
    /\ i >= env.coreset_size
    /\ IF CoresubsetFails(val.coreset_indices, env.dataset)
       THEN /\ pc' = "raised"
            /\ outcome' = Raised("ValueError")
       ELSE /\ pc' = "done"
            /\ outcome' = Returned(val.coreset_indices,
                                   Some(env.padded_feature_gramian))
    /\ UNCHANGED <<solver, dataset, method, rel, calls, coresubset,
                   solver_state, env, i, val, previous, warnings>>

\* reduce again, with the same arguments and the same random key.
GKIPRepeat ==
    /\ pc = "done"
    /\ solver.name = "gkip"
    /\ method = "reduce"
    /\ Enter("reduce", coresubset, solver_state, "repeat")
    /\ GKIPRefine(coresubset, solver_state)

\* reduce again, handed the solver state the last call returned.
GKIPCached ==
    /\ pc = "done"
    /\ solver.name = "gkip"
    /\ method = "reduce"
    /\ rel = "first"
    /\ Enter("reduce", coresubset, outcome.state, "cached")
    /\ GKIPRefine(coresubset, outcome.state)

\* A call of sample_batch_indices with the arguments held in env.
SampleBatchIndicesCall ==
    /\ pc = "sample"
    /\ IF SampleBatchIndicesRaises(env.max_index, env.batch_size)
       THEN /\ pc' = "raised"
            /\ outcome' = Raised("ValueError")
            /\ val' = NoEnv
       ELSE /\ pc' = "sampled"
            /\ outcome' = NoOutcome
            /\ val' = [batch_indices |->
                          SampleBatchIndices(env.random_key, env.max_index,
                                             env.batch_size, env.num_batches)]
    /\ UNCHANGED <<solver, dataset, method, rel, calls, coresubset,
                   solver_state, env, i, previous, warnings>>

\* One call of GreedyKernelInducingPoints: reduce or refine, to its end.
NextGKIPFirstCall ==
    \/ GKIPReduce
    \/ GKIPRefineCall
    \/ GKIPStep
    \/ GKIPReturn

(***************************************************************************)
(* RandomSample.reduce                                                     *)
(***************************************************************************)
\* jr.choice(key, len, (size,), p=p, replace=replace).  Without replacement
\* the draw is the head of an ordering of all indices in which every entry
\* with p > 0 comes before every entry with p = 0; with replacement every
\* position is drawn on its own.
ChoiceMany(key, len, size, p, replace) ==
    LET positive == {j \in 0 .. len - 1 : XLess(Zero, p[j])}
        before(j, l) ==
            \/ j \in positive /\ l \notin positive
            \/ j \in positive /\ l \in positive /\ (j - key) % len < (l - key) % len
            \/ j \notin positive /\ l \notin positive /\ j < l
    IN  IF replace
        THEN [k \in 0 .. size - 1 |-> Choice(FoldIn(key, k), p)]
        ELSE [k \in 0 .. size - 1 |->
                CHOOSE j \in 0 .. len - 1 :
                    Cardinality({l \in 0 .. len - 1 : before(l, j)}) = k]

\* RandomSample.reduce
RandomSampleReduce ==
    /\ pc = "idle"
    /\ solver.name = "random"
    /\ Enter("reduce", NoCoresubset, None, "first")
    /\ LET selection_weights ==
               IF solver.weighted THEN [j \in DOMAIN dataset.w |-> Int2X(dataset.w[j])]
               ELSE Full(n, Int2X(1))
           choice_fails == solver.unique /\ solver.coreset_size > n
           random_indices == ChoiceMany(solver.random_key, n, solver.coreset_size,
                                        selection_weights, ~solver.unique)
       IN  IF choice_fails
           THEN Raise(MSG)
           ELSE IF CoresubsetFails(random_indices, dataset)
           THEN Raise(IF solver.coreset_size > n /\ solver.unique
                      THEN MSG ELSE "ValueError")
           ELSE /\ pc' = "done"
                /\ outcome' = Returned(random_indices, None)
                /\ UNCHANGED <<env, i, val, warnings>>

(***************************************************************************)
(* Initial states: a solver object and a dataset.                          *)
(***************************************************************************)
\* Datasets of 1..MaxN points, at least one of them with a positive weight.
Datasets ==
    UNION {{[x |-> xs, w |-> ws, y |-> Full(len, 0)] :
                xs \in [0 .. len - 1 -> Coords],
                ws \in {f \in [0 .. len - 1 -> Weights] :
                            \E j \in 0 .. len - 1 : f[j] > 0}} :
                    len \in 1 .. MaxN}

\* Supervised datasets: uniform weights and a response for every point.
SupervisedDatasets ==
    UNION {{[x |-> xs, w |-> Full(len, 1), y |-> ys] :
                xs \in [0 .. len - 1 -> Coords],
                ys \in [0 .. len - 1 -> Responses]} : len \in 1 .. MaxN}

GreedySolvers ==
    {[name |-> nm, coreset_size |-> m, kernel |-> "tri", unique |-> u,
      regularise |-> r, random_key |-> 0, batch_size |-> None,
      regularisation_parameter |-> 1, weighted |-> FALSE] :
        nm \in {"herding", "stein"}, m \in 0 .. MaxSize, u \in BOOLEAN,
        r \in BOOLEAN}

InitCommon ==
    /\ pc = "idle"
    /\ method = "none"
    /\ rel = "none"
    /\ calls = 0
    /\ coresubset = NoCoresubset
    /\ solver_state = None
    /\ env = NoEnv
    /\ i = 0
    /\ val = NoEnv
    /\ outcome = NoOutcome
    /\ previous = NoOutcome
    /\ warnings = {}

InitGreedy ==
    /\ solver \in {sv \in GreedySolvers : sv.name = "stein" \/ ~sv.regularise}
    /\ dataset \in Datasets
    /\ InitCommon

NextGreedy ==
    \/ GreedyReduce
    \/ GreedyRefine
    \/ GreedyStep
    \/ GreedyReturn
    \/ GreedyRepeat
    \/ GreedyRefineResult

SpecGreedy == InitGreedy /\ [][NextGreedy]_vars

RPCholeskySolvers ==
    {[name |-> "rpcholesky", coreset_size |-> m, kernel |-> k, unique |-> u,
      regularise |-> FALSE, random_key |-> key, batch_size |-> None,
      regularisation_parameter |-> 1, weighted |-> FALSE] :
        m \in 0 .. MaxSize, k \in Kernels, u \in BOOLEAN, key \in Keys}

InitRPCholesky ==
    /\ solver \in RPCholeskySolvers
    /\ dataset \in {ds \in Datasets : \A j \in DOMAIN ds.w : ds.w[j] = 1}
    /\ InitCommon

NextRPCholesky ==
    \/ RPCholeskyReduce
    \/ RPCholeskyStep
    \/ RPCholeskyReturn
    \/ RPCholeskyRepeat

SpecRPCholesky == InitRPCholesky /\ [][NextRPCholesky]_vars

GKIPSolvers ==
    {[name |-> "gkip", coreset_size |-> m, kernel |-> "tri", unique |-> u,
      regularise |-> FALSE, random_key |-> key, batch_size |-> b,
      regularisation_parameter |-> 1, weighted |-> FALSE] :
        m \in 0 .. MaxSize, u \in BOOLEAN, key \in Keys,
        b \in {None} \cup {Some(q) : q \in BatchSizes}}

InitGKIP ==
    /\ solver \in GKIPSolvers
    /\ dataset \in SupervisedDatasets
    /\ InitCommon

NextGKIP ==
    \/ GKIPReduce
    \/ GKIPRefineCall
    \/ GKIPStep
    \/ GKIPReturn
    \/ GKIPRepeat

SpecGKIP == InitGKIP /\ [][NextGKIP]_vars

RandomSolvers ==
    {[name |-> "random", coreset_size |-> m, kernel |-> "tri", unique |-> u,
      regularise |-> FALSE, random_key |-> key, batch_size |-> None,
      regularisation_parameter |-> 1, weighted |-> wt] :
        m \in 0 .. MaxSize, u \in BOOLEAN, key \in Keys,
        wt \in BOOLEAN}

InitRandomSample ==
    /\ solver \in RandomSolvers
    /\ dataset \in Datasets
    /\ InitCommon

(***************************************************************************)
(* All solvers together.                                                   *)
(***************************************************************************)
Init ==
    \/ InitGreedy
    \/ InitRPCholesky
    \/ InitGKIP
    \/ InitRandomSample

Next ==
    \/ GreedyReduce
    \/ GreedyRefine
    \/ GreedyStep
    \/ GreedyReturn
    \/ GreedyRepeat
    \/ GreedyRefineResult
    \/ RPCholeskyReduce
    \/ RPCholeskyStep
    \/ RPCholeskyReturn
    \/ RPCholeskyRepeat
    \/ GKIPReduce
    \/ GKIPRefineCall
    \/ GKIPStep
    \/ GKIPReturn
    \/ GKIPRepeat
    \/ RandomSampleReduce

Spec == Init /\ [][Next]_vars

(***************************************************************************)
(* One call only: reduce or refine, from its entry to its return or raise. *)
(***************************************************************************)
NextFirstCall ==
    \/ GreedyReduce
    \/ GreedyRefine
    \/ GreedyStep
    \/ GreedyReturn
    \/ RPCholeskyReduce
    \/ RPCholeskyStep
    \/ RPCholeskyReturn
    \/ GKIPReduce
    \/ GKIPRefineCall
    \/ GKIPStep
    \/ GKIPReturn
    \/ RandomSampleReduce

SpecFirstCall == Init /\ [][NextFirstCall]_vars

(***************************************************************************)
(* reduce of the solvers that start from _initial_coresubset or draw the   *)
(* whole sample at once: KernelHerding, SteinThinning, RPCholesky and      *)
(* RandomSample.                                                           *)
(***************************************************************************)
InitReduce ==
    \/ InitGreedy
    \/ InitRPCholesky
    \/ InitRandomSample

NextReduce ==
    \/ GreedyReduce
    \/ GreedyStep
    \/ GreedyReturn
    \/ RPCholeskyReduce
    \/ RPCholeskyStep
    \/ RPCholeskyReturn
    \/ RandomSampleReduce

SpecReduce == InitReduce /\ [][NextReduce]_vars

(***************************************************************************)
(* KernelHerding.reduce, called once and then again.                       *)
(***************************************************************************)
InitHerding ==
    /\ solver \in {sv \in GreedySolvers : sv.name = "herding" /\ ~sv.regularise}
    /\ dataset \in Datasets
    /\ InitCommon

NextHerdingReduce ==
    \/ GreedyReduce
    \/ GreedyStep
    \/ GreedyReturn
    \/ GreedyRepeat

SpecHerdingReduce == InitHerding /\ [][NextHerdingReduce]_vars

(***************************************************************************)
(* The solvers that hold a random key: RPCholesky.reduce and               *)
(* GreedyKernelInducingPoints.reduce, called once and then again.          *)
(***************************************************************************)
InitRandomised ==
    \/ InitRPCholesky
    \/ InitGKIP

NextRandomised ==
    \/ RPCholeskyReduce
    \/ RPCholeskyStep
    \/ RPCholeskyReturn
    \/ RPCholeskyRepeat
    \/ GKIPReduce
    \/ GKIPStep
    \/ GKIPReturn
    \/ GKIPRepeat

SpecRandomised == InitRandomised /\ [][NextRandomised]_vars

(***************************************************************************)
(* The solvers that cache a solver state: a first call without a state,    *)
(* then the same call handed the state the first one returned.             *)
(***************************************************************************)
InitCached ==
    \/ InitHerding
    \/ InitRPCholesky
    \/ InitGKIP

NextCached ==
    \/ GreedyReduce
    \/ GreedyRefine
    \/ GreedyStep
    \/ GreedyReturn
    \/ GreedyCached
    \/ RPCholeskyReduce
    \/ RPCholeskyStep
    \/ RPCholeskyReturn
    \/ RPCholeskyCached
    \/ GKIPReduce
    \/ GKIPStep
    \/ GKIPReturn
    \/ GKIPCached

SpecCached == InitCached /\ [][NextCached]_vars

SpecGKIPFirstCall == InitGKIP /\ [][NextGKIPFirstCall]_vars

\* The same for the solvers constructed with unique=True.
InitGKIPUnique ==
    /\ InitGKIP
    /\ solver.unique

SpecGKIPUnique == InitGKIPUnique /\ [][NextGKIPFirstCall]_vars

\* The arguments of a direct call of sample_batch_indices.
InitSampleBatchIndices ==
    /\ solver = [name |-> "util"]
    /\ dataset = [x |-> Empty, w |-> Empty, y |-> Empty]
    /\ pc = "sample"
    /\ method = "sample_batch_indices"
    /\ rel = "none"
    /\ calls = 0
    /\ coresubset = NoCoresubset
    /\ solver_state = None
    /\ env \in [random_key : Keys, max_index : 0 .. MaxN,
                batch_size : -1 .. MaxN + 1, num_batches : 1 .. MaxSize]
    /\ i = 0
    /\ val = NoEnv
    /\ outcome = NoOutcome
    /\ previous = NoOutcome
    /\ warnings = {}

InitBatches ==
    \/ InitGKIP
    \/ InitSampleBatchIndices

NextBatches ==
    \/ GKIPReduce
    \/ GKIPRefineCall
    \/ GKIPStep
    \/ GKIPReturn
    \/ SampleBatchIndicesCall

SpecBatches == InitBatches /\ [][NextBatches]_vars

(***************************************************************************)
(* Properties.                                                             *)
(***************************************************************************)
Finished == pc \in {"done", "raised"}
IsGreedySolver == solver.name \in {"herding", "stein"}

\* C1: with unique=True, the indices KernelHerding and SteinThinning return
\* from reduce or refine are pairwise distinct, whatever the dataset, its
\* weights, the input coresubset and the coreset size.
C1_UniqueGreedy ==
    (pc = "done" /\ IsGreedySolver /\ solver.unique) => Distinct(outcome.indices)

\* C2: with unique=True, the indices GreedyKernelInducingPoints returns are
\* pairwise distinct, for every batch size, random key and input coresubset.
C2_UniqueGKIP ==
    (pc = "done" /\ solver.name = "gkip" /\ solver.unique)
        => Distinct(outcome.indices)

\* C3: RPCholesky with unique=True and coreset_size <= len(dataset) selects
\* no pivot twice: the residual entry of a chosen pivot is zero in every
\* later iteration, and the returned indices are pairwise distinct.
C3_UniqueRPCholesky ==
    (solver.name = "rpcholesky" /\ solver.unique /\ solver.coreset_size <= n)
        => /\ pc = "rpc" =>
                /\ \A q \in 0 .. i - 1 :
                       val.residual_diagonal[val.coreset_indices[q]] = Zero
                /\ Distinct(Slice(val.coreset_indices, i))
           /\ pc = "done" => Distinct(outcome.indices)


\* C4: the index array every solver returns from reduce or refine has
\* exactly coreset_size entries, whether the input coresubset was shorter
\* than, as long as, or longer than coreset_size.
C4_OutputLength ==
    (pc = "done" /\ solver.name \in {"herding", "stein", "rpcholesky", "gkip"})
        => ALen(outcome.indices) = solver.coreset_size

\* A refine call given more indices than coreset_size has returned exactly
\* coreset_size of them.
C4_Witness ==
    /\ pc = "done"
    /\ method = "refine"
    /\ IsGreedySolver
    /\ solver.coreset_size > 0
    /\ ALen(coresubset.indices) > solver.coreset_size
    /\ ALen(outcome.indices) = solver.coreset_size

\* C5: reduce of KernelHerding, RandomSample, SteinThinning and RPCholesky
\* with unique=True and coreset_size > len(dataset) raises the ValueError
\* with message MSG and returns no coreset.
C5_SizingError ==
    (/\ calls > 0
     /\ method = "reduce"
     /\ solver.name \in {"herding", "random", "stein", "rpcholesky"}
     /\ solver.unique
     /\ solver.coreset_size > n)
        => /\ pc = "raised"
           /\ outcome.status = "raised"
           /\ outcome.error = MSG
           /\ outcome.indices = Empty

\* RPCholesky.reduce asked for one point more than the dataset has.
C5_Witness ==
    /\ calls > 0
    /\ method = "reduce"
    /\ solver.name = "rpcholesky"
    /\ solver.unique
    /\ solver.coreset_size = n + 1
    /\ pc = "raised"
    /\ outcome.error = MSG

\* C6: refine called on the coresubset and the cached HerdingState that a
\* Kernel Herding solve returned (same dataset, kernel and coreset_size)
\* returns the same indices in the same order.
C6_HerdingIdempotent ==
    (/\ pc = "done"
     /\ solver.name = "herding"
     /\ rel = "refine_result"
     /\ previous.status = "returned")
        => outcome.indices = previous.indices

\* C7: RPCholesky and GreedyKernelInducingPoints are deterministic given the
\* random key: a second run with the same key, dataset, kernel and parameters
\* returns the same index sequence; the pivot of RPCholesky's iteration i is
\* drawn with the key folded from the base key and i, and the batch table of
\* GreedyKernelInducingPoints is sampled once, before the loop, from the
\* base key.
C7_RepeatSame ==
    (/\ pc = "done"
     /\ solver.name \in {"rpcholesky", "gkip"}
     /\ rel = "repeat"
     /\ previous.status = "returned")
        => outcome.indices = previous.indices

C7_KeyUse ==
    /\ RPCholeskyStep =>
           val'.coreset_indices[i] =
               Choice(FoldIn(solver.random_key, i), val.residual_diagonal)
    /\ GKIPStep =>
           /\ env' = env
           /\ env.batch_indices =
                  SampleBatchIndices(solver.random_key, n, env.batch_size,
                                     solver.coreset_size)

C7_Deterministic == [](C7_RepeatSame) /\ [][C7_KeyUse]_vars

\* A second RPCholesky run with a key other than zero has returned the same
\* two or more pivots as the first.
C7_Witness ==
    /\ pc = "done"
    /\ solver.name = "rpcholesky"
    /\ rel = "repeat"
    /\ solver.random_key > 0
    /\ ALen(outcome.indices) >= 2
    /\ outcome.indices[0] # outcome.indices[1]
    /\ outcome.indices = previous.indices

\* C8: Kernel Herding is deterministic: a second reduce with the same
\* dataset, kernel and coreset_size returns the same indices in the same
\* order, and every iteration selects the smallest index among those that
\* maximise the selection objective (a point without positive weight counts
\* as minus infinity).
C8_RepeatSame ==
    (/\ pc = "done"
     /\ solver.name = "herding"
     /\ method = "reduce"
     /\ rel = "repeat"
     /\ previous.status = "returned")
        => outcome.indices = previous.indices

C8_Objective(j) ==
    IF env.weights[j] > 0
    THEN XSub(env.gramian_row_mean[j],
              XDiv(val.kernel_similarity_penalty[j], Int2X(i + 1)))
    ELSE NInf

C8_FirstMaximum ==
    (GreedyStep /\ env.selection = "herding")
        => LET chosen == val'.coreset_indices[i]
           IN  /\ chosen \in DOMAIN env.data
               /\ \A l \in DOMAIN env.data :
                      /\ ~XLess(C8_Objective(chosen), C8_Objective(l))
                      /\ l < chosen => XLess(C8_Objective(l), C8_Objective(chosen))

C8_HerdingDeterministic == [](C8_RepeatSame) /\ [][C8_FirstMaximum]_vars

\* A repeated Kernel Herding reduce of a dataset whose first two points
\* coincide (an exact tie in the first iteration) has selected point 0 first,
\* both times.
C8_Witness ==
    /\ pc = "done"
    /\ solver.name = "herding"
    /\ method = "reduce"
    /\ rel = "repeat"
    /\ n >= 2
    /\ dataset.x[0] = dataset.x[1]
    /\ dataset.w[0] = dataset.w[1]
    /\ dataset.w[0] > 0
    /\ ALen(outcome.indices) >= 1
    /\ outcome.indices[0] = 0
    /\ outcome.indices = previous.indices

\* C9: GreedyKernelInducingPoints.refine given a coresubset longer than
\* coreset_size does not raise: it emits a SizeWarning, starts from the first
\* coreset_size input indices, and returns a coresubset of length
\* coreset_size.
C9_OversizedRefine ==
    (/\ calls > 0
     /\ solver.name = "gkip"
     /\ method = "refine"
     /\ ALen(coresubset.indices) > solver.coreset_size)
        => /\ "SizeWarning" \in warnings
           /\ pc # "raised"
           /\ (pc = "gkip" /\ i = 0) =>
                  val.coreset_indices = Slice(coresubset.indices, solver.coreset_size)
           /\ pc = "done" => ALen(outcome.indices) = solver.coreset_size

\* C10: with coreset_size = 0, reduce of every solver either returns an
\* empty coresubset or raises the sizing error.
C10_ZeroSize ==
    (/\ calls > 0
     /\ method = "reduce"
     /\ solver.coreset_size = 0
     /\ Finished)
        => \/ pc = "done" /\ outcome.indices = Empty
           \/ pc = "raised" /\ outcome.error = MSG

\* C11: solver-state caching is transparent.  For KernelHerding, RPCholesky
\* and GreedyKernelInducingPoints a call handed the state an earlier call on
\* the same dataset returned selects the same indices as that call, which
\* was handed no state, and returns the state unchanged; a call handed no
\* state returns the freshly computed Gramian row-mean (KernelHerding), the
\* Gramian diagonal as it was before the loop (RPCholesky), or the feature
\* Gramian padded to (n + 1) x (n + 1) with zeros (GKIP).
C11_FreshState ==
    CASE solver.name = "herding" -> Some(GramianRowMean(solver.kernel, dataset))
      [] solver.name = "rpcholesky" -> Some(KernelDiagonal(solver.kernel, dataset.x))
      [] solver.name = "gkip" -> Some(PaddedFeatureGramian(solver.kernel, dataset.x))

C11_CachingTransparent ==
    (pc = "done" /\ solver.name \in {"herding", "rpcholesky", "gkip"})
        => /\ ~solver_state.given => outcome.state = C11_FreshState
           /\ solver.name = "gkip" =>
                  /\ ALen(outcome.state.value) = n + 1
                  /\ \A a \in 0 .. n :
                         /\ ALen(outcome.state.value[a]) = n + 1
                         /\ outcome.state.value[a][n] = 0
                         /\ outcome.state.value[n][a] = 0
           /\ (rel = "cached" /\ previous.status = "returned") =>
                  /\ solver_state = previous.state
                  /\ outcome.indices = previous.indices
                  /\ outcome.state = solver_state

\* An RPCholesky reduce handed the cached Gramian diagonal has returned the
\* same two distinct pivots and the same diagonal, which is not the residual
\* diagonal its loop ended with.
C11_Witness ==
    /\ pc = "done"
    /\ solver.name = "rpcholesky"
    /\ rel = "cached"
    /\ solver_state.given
    /\ ALen(outcome.indices) >= 2
    /\ outcome.indices[0] # outcome.indices[1]
    /\ outcome.indices = previous.indices
    /\ outcome.state = solver_state
    /\ outcome.state.value # val.residual_diagonal

\* C13: in RPCholesky the residual diagonal handed from iteration i to
\* iteration i + 1 is, entry by entry, max(0, residual before - square of the
\* factor column written in iteration i); with unique=True the pivot's own
\* entry is zeroed afterwards and is left out of the comparison.  Only the
\* iterations whose normalising value g[pivot] is positive are compared.
C13_NewColumnSubtracted ==
    (RPCholeskyStep /\ XLess(Zero, val'.approximation_matrix[i].d)) =>
        \A j \in DOMAIN env.data :
            \/ env.unique /\ j = val'.coreset_indices[i]
            \/ val'.residual_diagonal[j] =
                   ClipMin0(XSub(val.residual_diagonal[j],
                                 ColProd(val'.approximation_matrix[i], j, j)))

C13_ResidualUpdate == [][C13_NewColumnSubtracted]_vars

\* C14: in every RPCholesky iteration on a dataset whose Gramian diagonal is
\* positive throughout, with coreset_size <= len(dataset) and unique true or
\* false, the sampled pivot has a positive residual-diagonal entry and the
\* value g[pivot], whose square root divides the new factor column, is
\* positive.
C14_PositivePivot ==
    (/\ RPCholeskyStep
     /\ solver.coreset_size <= n
     /\ \A j \in DOMAIN dataset.x :
            XLess(Zero, KernelDiagonal(solver.kernel, dataset.x)[j]))
        => /\ XLess(Zero, val.residual_diagonal[val'.coreset_indices[i]])
           /\ XLess(Zero, val'.approximation_matrix[i].d)

C14_NoDivisionByZero == [][C14_PositivePivot]_vars

\* The dataset points the engine's mask leaves selectable in the current
\* iteration: positive weight and a penalty that is not NaN.
Selectable ==
    {j \in DOMAIN env.data :
        env.weights[j] > 0 /\ ~IsNaN(val.kernel_similarity_penalty[j])}

\* C15: at iteration i Kernel Herding writes to position i the smallest index
\* that maximises gramian_row_mean[x] - penalty[x] / (i + 1) over the dataset
\* points whose masked penalty is not NaN, the penalty being the one before
\* this iteration's update.
C15_Objective(j) ==
    XSub(env.gramian_row_mean[j],
         XDiv(val.kernel_similarity_penalty[j], Int2X(i + 1)))

C15_SmallestMaximiser ==
    (GreedyStep /\ env.selection = "herding")
        => LET chosen == val'.coreset_indices[i]
           IN  /\ chosen \in Selectable
               /\ \A l \in Selectable :
                      /\ ~XLess(C15_Objective(chosen), C15_Objective(l))
                      /\ l < chosen => XLess(C15_Objective(l), C15_Objective(chosen))

C15_HerdingSelectionRule == [][C15_SmallestMaximiser]_vars

\* C16: at iteration i Stein Thinning writes to position i an index that
\* minimises stein_diag[x] + 2 * penalty[x] + laplace_correction[x]
\* - i * regularised_log_pdf[x] over the candidates the mask leaves
\* selectable; with regularise=False both laplace_correction and
\* regularised_log_pdf are zero, so the criterion is
\* stein_diag[x] + 2 * penalty[x] in every iteration.
C16_Objective(j) ==
    XSub(XAdd(XAdd(env.stein_kernel_diagonal[j],
                   XMul(Int2X(2), val.kernel_similarity_penalty[j])),
              env.laplace_correction[j]),
         XMul(Int2X(i), env.regularised_log_pdf[j]))

C16_Minimiser ==
    (GreedyStep /\ env.selection = "stein")
        => LET chosen == val'.coreset_indices[i]
           IN  /\ chosen \in Selectable
               /\ \A l \in Selectable :
                      ~XLess(C16_Objective(l), C16_Objective(chosen))
               /\ ~solver.regularise =>
                      \A l \in DOMAIN env.data :
                          /\ env.laplace_correction[l] = Zero
                          /\ env.regularised_log_pdf[l] = Zero
                          /\ C16_Objective(l) =
                                 XAdd(env.stein_kernel_diagonal[l],
                                      XMul(Int2X(2),
                                           val.kernel_similarity_penalty[l]))

C16_SteinSelectionRule == [][C16_Minimiser]_vars

\* C20: in KernelHerding and SteinThinning, on a dataset with at least one
\* point of positive weight, no iteration of reduce or refine writes a point
\* of weight zero into the coreset index array: every position the loop has
\* written so far holds a point of positive weight.
C20_NoZeroWeightSelected ==
    (/\ pc = "greedy"
     /\ IsGreedySolver
     /\ \E j \in DOMAIN dataset.w : dataset.w[j] > 0)
        => \A q \in 0 .. i - 1 : dataset.w[val.coreset_indices[q]] > 0

\* C19: in the shared greedy engine with unique=True, after iteration i the
\* penalty vector is the previous penalty plus the kernel row of the index
\* chosen at i, except that the chosen index's own entry is +infinity; an
\* entry that is +infinity stays +infinity, and an index whose entry is
\* +infinity is not chosen while a selectable candidate with a finite
\* penalty remains.
C19_PenaltyStep ==
    (GreedyStep /\ env.unique)
        => LET chosen == val'.coreset_indices[i]
               row == KernelRow(env.kernel, env.data, chosen)
               before == val.kernel_similarity_penalty
               after == val'.kernel_similarity_penalty
           IN  /\ \A j \in DOMAIN env.data :
                      after[j] = IF j = chosen THEN PInf
                                 ELSE XAdd(before[j], row[j])
               /\ \A j \in DOMAIN env.data : before[j] = PInf => after[j] = PInf
               /\ (\E l \in Selectable : IsFin(before[l])) => before[chosen] # PInf

C19_UniquePenalty == [][C19_PenaltyStep]_vars

\* Two iterations of a unique solve have chosen two different points, and
\* the penalty of the first is still +infinity after the second.
C19_Witness ==
    /\ pc = "greedy"
    /\ env.unique
    /\ i = 2
    /\ val.coreset_indices[0] # val.coreset_indices[1]
    /\ val.kernel_similarity_penalty[val.coreset_indices[0]] = PInf
    /\ val.kernel_similarity_penalty[val.coreset_indices[1]] = PInf

\* C18: in SteinThinning with regularise=True the log-density estimate is
\* scaled by 1 / coreset_size, the solver's target size, in reduce and in
\* refine, also when refine is given a coresubset whose length is not
\* coreset_size.
C18_ScaledByCoresetSize ==
    (/\ pc = "greedy"
     /\ solver.name = "stein"
     /\ solver.regularise
     /\ solver.coreset_size > 0)
        => \A j \in DOMAIN dataset.x :
               env.regularised_log_pdf[j] =
                   XMul(Fin(1, solver.coreset_size), KdeLogPdf(dataset)[j])

\* C17: whenever the Stein kernel that SteinThinning.refine derives from the
\* base kernel and the score function differs from the kernel the solver was
\* constructed with, the self-diagonal of the selection criterion and the
\* kernel rows added to the similarity penalty are those of the derived
\* Stein kernel.
C17_SteinDiagonal ==
    (pc = "greedy" /\ solver.name = "stein" /\ solver.coreset_size > 0)
        => \A j \in DOMAIN dataset.x :
               env.stein_kernel_diagonal[j] =
                   Int2X(SteinKernelValue(env.stein_kernel, dataset.x[j], dataset.x[j]))

C17_SteinPenalty ==
    (GreedyStep /\ env.selection = "stein")
        => LET chosen == val'.coreset_indices[i]
           IN  \A j \in DOMAIN env.data :
                   \/ env.unique /\ j = chosen
                   \/ val'.kernel_similarity_penalty[j] =
                          XAdd(val.kernel_similarity_penalty[j],
                               Int2X(SteinKernelValue(env.stein_kernel,
                                                      env.data[j], env.data[chosen])))

C17_SteinKernelUsed == [](C17_SteinDiagonal) /\ [][C17_SteinPenalty]_vars

\* C21: the shared greedy loop runs exactly output_size iterations
\* i = 0, 1, ..., output_size - 1 in ascending order with no early exit;
\* iteration i changes position i of the index array and no other, and the
\* index it writes is the selection function's choice from the penalty
\* vector alone, so every position 0 .. output_size - 1 of the input is
\* overwritten once and the input indices act only through the initial
\* penalty.
C21_LoopBounds ==
    IsGreedySolver =>
        /\ pc = "greedy" => i \in 0 .. env.output_size
        /\ pc = "done" => i = env.output_size /\ env.output_size = solver.coreset_size

C21_Iteration ==
    GreedyStep
        => /\ i < env.output_size
           /\ i' = i + 1
           /\ DOMAIN val'.coreset_indices = DOMAIN val.coreset_indices
           /\ \A q \in DOMAIN val.coreset_indices :
                  q # i => val'.coreset_indices[q] = val.coreset_indices[q]
           /\ val'.coreset_indices[i] =
                  SelectionFunction(env, i,
                      [j \in DOMAIN env.weights |->
                          IF j \in Selectable THEN val.kernel_similarity_penalty[j]
                          ELSE NaN])

C21_FixedCountOverwrite == [](C21_LoopBounds) /\ [][C21_Iteration]_vars

\* A refine call given a coresubset that holds point 1 at position 0 has run
\* all its iterations and returned another point at position 0.
C21_Witness ==
    /\ pc = "done"
    /\ IsGreedySolver
    /\ method = "refine"
    /\ solver.coreset_size >= 1
    /\ ALen(coresubset.indices) >= 1
    /\ coresubset.indices[0] = 1
    /\ outcome.indices[0] = 0
    /\ i = solver.coreset_size

\* C22: a loop given an input coresubset of length L < coreset_size starts
\* from an index array that holds the L input indices at positions
\* 0 .. L - 1 and placeholders behind them: index 0 with weight 0 in the
\* shared greedy engine (so the initial penalty is the kernel mean over the
\* input points alone), index -1 in GreedyKernelInducingPoints.  reduce
\* starts from coreset_size placeholders of weight zero: 0 for KernelHerding,
\* SteinThinning and RPCholesky, -1 for GreedyKernelInducingPoints.
C22_Padded(fill_value) ==
    LET L == ALen(coresubset.indices)
    IN  L < solver.coreset_size =>
            /\ ALen(val.coreset_indices) = solver.coreset_size
            /\ \A q \in 0 .. L - 1 : val.coreset_indices[q] = coresubset.indices[q]
            /\ \A q \in L .. solver.coreset_size - 1 :
                   val.coreset_indices[q] = fill_value

C22_PlaceholderPadding ==
    (pc \in {"greedy", "rpc", "gkip"} /\ i = 0)
        => /\ pc = "greedy" =>
                  /\ C22_Padded(0)
                  /\ ALen(coresubset.indices) < solver.coreset_size =>
                         val.kernel_similarity_penalty =
                             ComputeMean(solver.kernel, dataset.x, val.coreset_indices,
                                 Concat(coresubset.weights,
                                        Full(solver.coreset_size
                                                 - ALen(coresubset.indices), 0)))
           /\ pc = "gkip" => C22_Padded(-1)
           /\ method = "reduce" =>
                  /\ val.coreset_indices =
                         Full(solver.coreset_size, IF pc = "gkip" THEN -1 ELSE 0)
                  /\ pc # "rpc" =>
                         /\ coresubset.indices = val.coreset_indices
                         /\ coresubset.weights = Full(solver.coreset_size, 0)

\* The shared greedy engine is about to start on a one-index input, point 1,
\* padded to coreset_size = 2 with a zero: [1, 0].
C22_Witness ==
    /\ pc = "greedy"
    /\ i = 0
    /\ method = "refine"
    /\ solver.coreset_size = 2
    /\ ALen(coresubset.indices) = 1
    /\ coresubset.indices[0] = 1
    /\ val.coreset_indices[0] = 1
    /\ val.coreset_indices[1] = 0

C24_CandidateTable ==
    pc = "gkip" =>
        \A r \in DOMAIN val.candidate_coresets :
            /\ DOMAIN val.candidate_coresets[r] = DOMAIN val.coreset_indices
            /\ \A q \in DOMAIN val.coreset_indices :
                   IF q = i
                   THEN val.candidate_coresets[r][q] = env.batch_indices[i][r]
                   ELSE val.candidate_coresets[r][q] = val.coreset_indices[q]

\* The second iteration of a solve over the whole dataset as candidate pool
\* is about to start: the two rows share the index selected first and differ
\* in column 1, which holds the second batch.
C24_Witness ==
    /\ pc = "gkip"
    /\ i = 1
    /\ solver.coreset_size = 2
    /\ env.batch_size = 2
    /\ val.candidate_coresets[0][0] = val.coreset_indices[0]
    /\ val.candidate_coresets[1][0] = val.coreset_indices[0]
    /\ val.candidate_coresets[0][1] = env.batch_indices[1][0]
    /\ val.candidate_coresets[1][1] = env.batch_indices[1][1]
    /\ val.candidate_coresets[0][1] # val.candidate_coresets[1][1]

\* The loss of every candidate row in the iteration about to run, and the
\* same with +infinity added to every row whose candidate already occupies a
\* position other than i of the index array.
IterationLoss ==
    GreedyKernelInducingPointsLoss(
        val.candidate_coresets, env.padded_responses, env.padded_feature_gramian,
        env.regularisation_parameter,
        [val.identity EXCEPT ![i] = [val.identity[i] EXCEPT ![i] = 1]])

ChosenElsewhere(r) ==
    \E q \in DOMAIN val.coreset_indices :
        q # i /\ val.coreset_indices[q] = val.candidate_coresets[r][i]

PenalisedLoss ==
    LET loss == IterationLoss
    IN  Eager([r \in DOMAIN loss |->
            IF ChosenElsewhere(r) THEN XAdd(loss[r], PInf) ELSE loss[r]])

\* C25: in GreedyKernelInducingPoints with unique=True, at iteration i a
\* candidate is penalised with +infinity exactly when its index occupies a
\* position other than i of the current index array, so the selected index
\* is the candidate of the first row of least penalised loss; the index
\* already at position i (and at no other position) is not penalised, and is
\* retained whenever it is among the iteration's candidates and has minimal
\* loss.
C25_Retained(penalised, r) ==
    (/\ val.candidate_coresets[r][i] = val.coreset_indices[i]
     /\ ~ChosenElsewhere(r)
     /\ \A l \in DOMAIN penalised : ~XLess(penalised[l], penalised[r]))
        => val'.coreset_indices[i] = val.coreset_indices[i]

C25_MaskStep ==
    (GKIPStep /\ env.unique)
        => LET penalised == PenalisedLoss
           IN  /\ val'.coreset_indices[i] =
                      val.candidate_coresets[ArgMin(penalised)][i]
               /\ \A r \in DOMAIN val.candidate_coresets : C25_Retained(penalised, r)

C25_UniqueMask == [][C25_MaskStep]_vars

\* C25, amended: as above, but the index already at position i is retained
\* whenever it is among the iteration's candidates, no candidate has a
\* smaller penalised loss, and every candidate in an earlier row of the
\* batch has a greater one (loss.argmin() takes the first row of least loss).
C25_RetainedFirst(penalised, r) ==
    (/\ val.candidate_coresets[r][i] = val.coreset_indices[i]
     /\ ~ChosenElsewhere(r)
     /\ \A l \in DOMAIN penalised :
            /\ ~XLess(penalised[l], penalised[r])
            /\ l < r => XLess(penalised[r], penalised[l]))
        => val'.coreset_indices[i] = val.coreset_indices[i]

C25_MaskStepFirst ==
    (GKIPStep /\ env.unique)
        => LET penalised == PenalisedLoss
           IN  /\ val'.coreset_indices[i] =
                      val.candidate_coresets[ArgMin(penalised)][i]
               /\ \A r \in DOMAIN val.candidate_coresets :
                      C25_RetainedFirst(penalised, r)

C25_UniqueMaskFirstMinimum == [][C25_MaskStepFirst]_vars

\* A refine call with unique=True has kept the input's index at position 0,
\* although the first row of the batch offered another candidate.
C25_Witness ==
    /\ pc = "gkip"
    /\ i = 1
    /\ method = "refine"
    /\ env.unique
    /\ ALen(coresubset.indices) >= 1
    /\ val.coreset_indices[0] = coresubset.indices[0]
    /\ env.batch_size >= 2
    /\ env.batch_indices[0][0] # coresubset.indices[0]

\* The identity helper the loss of the iteration about to run is computed
\* with: the helper carried by the loop with entry (i, i) set to 1.
UpdatedIdentity ==
    [val.identity EXCEPT ![i] = [val.identity[i] EXCEPT ![i] = 1]]

\* Position a of the coresubset the call was given holds an index.
InputSlotFilled(a) ==
    a < ALen(coresubset.indices) /\ coresubset.indices[a] # -1

\* C26: in GreedyKernelInducingPoints, when the loss of iteration i is
\* computed the identity helper is a coreset_size x coreset_size diagonal
\* matrix with entry 1 at every position j <= i and at every position whose
\* slot of the input coresubset was filled (index other than -1), and 0
\* everywhere else; when the input coresubset fills every position it is the
\* identity matrix in every iteration.
C26_IdentityHelper ==
    (pc = "gkip" /\ i < env.coreset_size) =>
        /\ DOMAIN UpdatedIdentity = 0 .. env.coreset_size - 1
        /\ \A a \in 0 .. env.coreset_size - 1 :
               /\ DOMAIN UpdatedIdentity[a] = 0 .. env.coreset_size - 1
               /\ \A b \in 0 .. env.coreset_size - 1 :
                      UpdatedIdentity[a][b] =
                          IF a = b /\ (a <= i \/ InputSlotFilled(a)) THEN 1 ELSE 0
        /\ (\A a \in 0 .. env.coreset_size - 1 : InputSlotFilled(a)) =>
               \A a, b \in 0 .. env.coreset_size - 1 :
                   UpdatedIdentity[a][b] = IF a = b THEN 1 ELSE 0

\* The second iteration of a refine of a one-index coresubset to two indices
\* is about to run: position 0 was filled by the input, position 1 was not,
\* and the helper carried into the iteration is diag(1, 0).
C26_Witness ==
    /\ pc = "gkip"
    /\ i = 1
    /\ method = "refine"
    /\ env.coreset_size = 2
    /\ ALen(coresubset.indices) = 1
    /\ val.identity[0][0] = 1
    /\ val.identity[1][1] = 0

\* The batch size GreedyKernelInducingPoints samples with: the one asked for
\* when it is set and smaller than the dataset, else the size of the dataset.
C27_BatchSize ==
    IF solver.batch_size.given /\ solver.batch_size.value < n
    THEN solver.batch_size.value ELSE n

\* A table of num_batches rows of batch_size pairwise-distinct indices below
\* max_index.
C27_Table(table, num_batches, batch_size, max_index) ==
    /\ DOMAIN table = 0 .. num_batches - 1
    /\ \A r \in DOMAIN table :
           /\ DOMAIN table[r] = 0 .. batch_size - 1
           /\ \A k \in DOMAIN table[r] : table[r][k] \in 0 .. max_index - 1
           /\ \A k, l \in DOMAIN table[r] : k # l => table[r][k] # table[r][l]

\* C27: GreedyKernelInducingPoints samples before its loop one table of
\* coreset_size rows by batch_size columns, batch_size being the requested
\* batch size when it is set and smaller than len(dataset) and len(dataset)
\* otherwise; every row holds pairwise-distinct indices of the dataset, so
\* with no batching every row is a permutation of the whole dataset; and
\* sample_batch_indices raises ValueError when max_index < batch_size,
\* returning such a table otherwise.
C27_BatchTable ==
    /\ pc = "gkip" =>
           /\ C27_Table(env.batch_indices, solver.coreset_size, C27_BatchSize, n)
           /\ ~solver.batch_size.given =>
                  \A r \in DOMAIN env.batch_indices :
                      {env.batch_indices[r][k] : k \in DOMAIN env.batch_indices[r]}
                          = 0 .. n - 1
    /\ (method = "sample_batch_indices" /\ pc # "sample"
            /\ env.max_index < env.batch_size) =>
           outcome = Raised("ValueError")
    /\ pc = "sampled" =>
           C27_Table(val.batch_indices, env.num_batches, env.batch_size,
                     env.max_index)

\* A solve of two points over the whole dataset of two points has sampled
\* its table: two rows, each a permutation of the two indices, in different
\* orders.
C27_Witness ==
    /\ pc = "gkip"
    /\ ~solver.batch_size.given
    /\ n = 2
    /\ solver.coreset_size = 2
    /\ env.batch_size = 2
    /\ env.batch_indices[0][0] # env.batch_indices[1][0]


\* C28: throughout the loop of GreedyKernelInducingPoints, the row of the
\* batch table that an iteration reads and the column of the candidate table
\* that it writes for the next iteration lie in [0, coreset_size), the final
\* iteration i = coreset_size - 1 included.
C28_IndicesInRange ==
    (pc = "gkip" /\ i < env.coreset_size) =>
        /\ BatchRowRead(i) \in DOMAIN env.batch_indices
        /\ BatchRowRead(i) \in 0 .. env.coreset_size - 1
        /\ CandidateColumnWritten(i) \in 0 .. env.coreset_size - 1
        /\ \A r \in DOMAIN val.candidate_coresets :
               CandidateColumnWritten(i) \in DOMAIN val.candidate_coresets[r]

\* C29: after reduce or refine of GreedyKernelInducingPoints the index
\* returned at every position i is one of the entries of row i of the batch
\* table, so an index of the dataset in [0, len(dataset)); no placeholder -1
\* is left in the returned index array.
C29_ReturnedFromBatches ==
    (solver.name = "gkip" /\ pc = "done" /\ outcome.status = "returned") =>
        /\ DOMAIN outcome.indices = 0 .. solver.coreset_size - 1
        /\ \A a \in DOMAIN outcome.indices :
               /\ \E k \in DOMAIN env.batch_indices[a] :
                      outcome.indices[a] = env.batch_indices[a][k]
               /\ outcome.indices[a] \in 0 .. n - 1
               /\ outcome.indices[a] # -1

\* A refine of a one-index coresubset to two indices has returned: position
\* 1, padded with -1 on entry, holds an index of the dataset.
C29_Witness ==
    /\ solver.name = "gkip"
    /\ pc = "done"
    /\ method = "refine"
    /\ outcome.status = "returned"
    /\ solver.coreset_size = 2
    /\ ALen(coresubset.indices) = 1
    /\ outcome.indices[1] \in 0 .. n - 1

\* C30: reduce of KernelHerding, SteinThinning, RPCholesky and
\* GreedyKernelInducingPoints raises the sizing ValueError (message MSG) if
\* and only if coreset_size > len(dataset), whatever the unique flag: it
\* raises with unique=False too, and coreset_size = len(dataset) is accepted.
C30_SizingErrorIff ==
    (/\ calls > 0
     /\ method = "reduce"
     /\ solver.name \in {"herding", "stein", "rpcholesky", "gkip"})
        => ((pc = "raised" /\ outcome.status = "raised" /\ outcome.error = MSG)
                <=> solver.coreset_size > n)

\* SteinThinning.reduce without uniqueness, asked for one point more than the
\* dataset has, has raised the sizing error.
C30_Witness ==
    /\ calls > 0
    /\ method = "reduce"
    /\ solver.name = "stein"
    /\ ~solver.unique
    /\ solver.coreset_size = n + 1
    /\ pc = "raised"
    /\ outcome.error = MSG

=========================================================================
